---- MODULE Spec2Model ----
(***************************************************************************)
(* The document retrievers of 05-rag-langchain: the TF-IDF LocalVectorStore *)
(* of indexer.py and indexer_with_json.py, the LocalEmbeddingVectorStore,   *)
(* the OllamaEmbeddingVectorStore and the OllamaVectorStore (FAISS), with   *)
(* create_vector_store / reindex_all of indexer.py.                         *)
(*                                                                          *)
(* One store instance is under observation.  A text is the sequence of its  *)
(* whitespace-separated words (what str.split() yields); a document is a    *)
(* record holding its page_content, and is identified by its place in the   *)
(* store's list.  fresh counts the documents at the end of that list that   *)
(* the most recent add_documents call brought, adds the add_documents calls *)
(* made on the store (0, 1, or 2 for two and more), failed whether one of   *)
(* them raised, substituted which rows of an Ollama matrix were substituted *)
(* for a failed embedding request; call and ret are the most recent call    *)
(* and what it returned.                                                    *)
(*                                                                          *)
(* rag.py on top of it: the store variables are then the instance the       *)
(* global rag.vector_store refers to, built is the store the latest         *)
(* reindex_all returned and that is not installed yet, retriever the global *)
(* rag.retriever, pc / request / partial / answer one retrieval in flight   *)
(* (local_retriever runs in a worker thread of the chain, so that the       *)
(* replacement of rag.vector_store can fall between its two searches),      *)
(* epoch the number of the reindex_all whose store is installed, reindexes  *)
(* the reindex_all calls made, atStart what the retrieval in flight would   *)
(* have returned had it run to its end when it began.                       *)
(* rag_answer is followed on the installed store too (AnswerSpec), with    *)
(* its check of the two globals and its result in call and ret.             *)
(*                                                                          *)
(* Two store objects side by side (TwinSpec): the store variables are the   *)
(* object the next call goes to, twin is the other object with its most     *)
(* recent call and result; documents there carry their metadata.            *)
(*                                                                          *)
(* The Telegram bot of 04-multimodal (BotSpec): chat_conversations and      *)
(* transactions are the two module dictionaries of handlers.py, a chat      *)
(* that is no key being the empty sequence (every read of a missing key is  *)
(* transactions.get(chat_id, []) or follows the creation of the entry);     *)
(* task is the handler coroutine of each message received: the await it is  *)
(* suspended at (pc), and while it runs the text it handed to the LLM       *)
(* (said), the attempts made to send the answer and whether a /start of its *)
(* chat was handled while it awaited the LLM (restarted); end is how it     *)
(* finished.                                                                *)
(* received is the number of messages so far, reply the message to a user   *)
(* that the most recent step composed or sent, if any.  A history entry is  *)
(* its role and the message it belongs to; its content is left out.         *)
(***************************************************************************)
EXTENDS Integers, Sequences, FiniteSets, TLC

VARIABLES kind, documents, embeddings, vectorizer, vector_store,
          substituted, fresh, adds, failed, call, ret, sortKind,
          built, retriever, pc, request, partial, answer, epoch,
          reindexes, atStart, twin,
          chat_conversations, transactions, task, received, reply

botvars == <<chat_conversations, transactions, task, received, reply>>

ragvars == <<built, retriever, pc, request, partial, answer, epoch,
             reindexes, atStart>>

vars == <<kind, documents, embeddings, vectorizer, vector_store,
          substituted, fresh, adds, failed, call, ret, sortKind, ragvars,
          twin, botvars>>

(***************************************************************************)
(* Bounds and input sets.                                                   *)
(***************************************************************************)
MaxDocs == 3
MaxK == 2
MaxReindex == 2
MaxMessages == 2

None == "None"

\* self.embeddings: None, or a numpy array, which is one-dimensional and
\* empty (shape (0,)) or a matrix of rows
NoEmbeddings == [shape |-> "None", rows |-> <<>>]
Empty1D == [shape |-> "1d", rows |-> <<>>]
Matrix(rows) == [shape |-> "2d", rows |-> rows]

\* a TfidfVectorizer that was never fitted
Unfitted == [error |-> "not fitted", vocabulary |-> {}, n |-> 0, df |-> <<>>]

\* OllamaVectorStore.vector_store: None, or the FAISS index with its
\* documents
NoIndex == [built |-> FALSE, items |-> <<>>]

N == <<>>
S == <<"the">>
B == <<"bank">>
BC == <<"bank", "card">>
L == <<"loan">>

\* "потратил 500 рублей на продукты", "получил зарплату 50000 рублей" and
\* "купил билеты в кино", letter for letter in Latin script
P1 == <<"potratil", "500", "rublej", "na", "produkty">>
P2 == <<"poluchil", "zarplatu", "50000", "rublej">>
P3 == <<"kupil", "bilety", "v", "kino">>

\* The chunk lists handed to add_documents / create_vector_store.
Batches == { <<>>, <<S>>, <<B>>, <<B, B>>, <<L, BC, L>>, <<B, BC, B>>,
             <<N, B>>, <<P1, P2, P3>> }

\* Those of them handed to the appending (embedding) stores, whose lists
\* grow with every call.
AppendBatches == { <<>>, <<B>>, <<L, BC, L>>, <<N, B>> }

\* The query strings.
Queries == { <<>>, <<"Bank">>, <<"loan">>, <<"a">>,
             <<"zarplata">>, <<"zarplatu">> }

\* The k a caller passes to a search: no search method checks it, so the
\* values below 1 are inputs as well (followed for the two LocalVectorStore
\* classes, see SimilaritySearch and KeywordSearch).
Ks == -1..MaxK

\* config.RETRIEVER_K, the k of the retriever
RetrieverKs == 1..MaxK

Kinds == {"tfidf", "tfidf_json", "local_emb", "ollama", "ollama_lc"}
TfidfKinds == {"tfidf", "tfidf_json"}
AppendKinds == {"local_emb", "ollama", "ollama_lc"}

(***************************************************************************)
(* Small helpers.                                                           *)
(***************************************************************************)
Min(a, b) == IF a <= b THEN a ELSE b
Max(a, b) == IF a >= b THEN a ELSE b

Range(s) == { s[i] : i \in 1..Len(s) }

RECURSIVE SumSeq(_)
SumSeq(s) == IF s = <<>> THEN 0 ELSE Head(s) + SumSeq(Tail(s))

\* seq[:k] written where seq[-k:] is meant
SliceLastAsFirst(s, k) ==
    LET n == Len(s)
        to == IF k >= 0 THEN Min(k, n) ELSE Max(n + k, 0)
    IN  SubSeq(s, 1, to)

\* Python's seq[-k:]
SliceLast(s, k) ==
    LET n == Len(s)
        from == IF k > 0 THEN Max(n - k, 0) + 1
                ELSE IF k = 0 THEN 1
                ELSE Min(-k, n) + 1
    IN  SubSeq(s, from, n)

\* Python's seq[:k]
SliceFirst(s, k) ==
    LET n == Len(s)
        to == IF k >= 0 THEN Min(k, n) ELSE Max(n + k, 0)
    IN  SubSeq(s, 1, to)

\* Python's seq[::-1]
Reverse(s) == [i \in 1..Len(s) |-> s[Len(s) + 1 - i]]

\* str.lower() on one word
Lower(w) == IF w = "Bank" THEN "bank" ELSE w

LowerAll(text) == [i \in 1..Len(text) |-> Lower(text[i])]

\* The Document objects a caller builds from a list of contents.
MakeDocs(batch) == [i \in 1..Len(batch) |-> [page_content |-> batch[i]]]

(***************************************************************************)
(* TfidfVectorizer (scikit-learn) as the two LocalVectorStore classes       *)
(* configure it.  A term is a sequence of one or two tokens.  Vocabularies  *)
(* stay far below max_features (1000 / 2000), which therefore never prunes. *)
(***************************************************************************)
\* stop_words='english' (indexer.py) / stop_words=None (indexer_with_json.py)
StopWords(kd) == IF kd = "tfidf" THEN {"the", "a"} ELSE {}

\* lowercase=True and token_pattern (?u)\b\w\w+\b: tokens of two or more
\* word characters, then the stop words are dropped.
Tokens(kd, text) ==
    SelectSeq(LowerAll(text), LAMBDA w : Len(w) >= 2 /\ w \notin StopWords(kd))

\* ngram_range=(1, 1) (indexer.py) / ngram_range=(1, 2) (indexer_with_json.py)
Terms(kd, text) ==
    LET t == Tokens(kd, text)
        uni == [i \in 1..Len(t) |-> <<t[i]>>]
        bi == [i \in 1..(Len(t) - 1) |-> <<t[i], t[i + 1]>>]
    IN  IF kd = "tfidf_json" THEN uni \o bi ELSE uni

Count(term, terms) == Cardinality({ i \in 1..Len(terms) : terms[i] = term })

\* smooth idf, ln((1 + n) / (1 + df)) + 1, in quarters (rounded)
IdfQ(n, df) ==
    CASE df >= n -> 4
      [] n = 2 /\ df = 1 -> 6
      [] n = 3 /\ df = 1 -> 7
      [] n = 3 /\ df = 2 -> 5

\* fit: the vocabulary and document frequencies of a list of texts, or the
\* ValueError scikit-learn raises (empty vocabulary; max_df * n < min_df;
\* no terms remain after pruning).  min_df = 1 in both classes; max_df is
\* 1.0 (indexer.py) or 0.9 (indexer_with_json.py), a share of the documents.
Fit(kd, texts) ==
    LET n == Len(texts)
        all == UNION { Range(Terms(kd, texts[i])) : i \in 1..n }
        df(t) == Cardinality({ i \in 1..n : t \in Range(Terms(kd, texts[i])) })
        maxDfTenths == IF kd = "tfidf_json" THEN 9 ELSE 10
        kept == { t \in all : 10 * df(t) <= maxDfTenths * n }
        Error(msg) == [error |-> msg, vocabulary |-> {}, n |-> 0, df |-> <<>>]
    IN  IF all = {} THEN Error("empty vocabulary")
        ELSE IF maxDfTenths * n < 10 * 1 THEN Error("max_df < min_df")
        ELSE IF kept = {} THEN Error("no terms remain")
        ELSE [error |-> None, vocabulary |-> kept, n |-> n,
              df |-> [t \in kept |-> df(t)]]

\* transform: the tf * idf row of a text over the fitted vocabulary.  The
\* L2 normalisation of the row is applied where rows are compared (SimKey).
Transform(kd, vec, text) ==
    [t \in vec.vocabulary |->
        Count(t, Terms(kd, text)) * IdfQ(vec.n, vec.df[t])]

(***************************************************************************)
(* The embedding model (SentenceTransformer / Ollama), an opaque function   *)
(* from text to a dense vector: here the sum of fixed word vectors.         *)
(***************************************************************************)
WordVec(w) ==
    CASE w = "bank" -> <<1, 0>>
      [] w = "card" -> <<0, 1>>
      [] w = "loan" -> <<-1, 0>>
      [] OTHER -> <<1, 1>>

RECURSIVE Embed(_)
Embed(text) ==
    IF text = <<>> THEN <<0, 0>>
    ELSE LET v == WordVec(Lower(Head(text)))
             r == Embed(Tail(text))
         IN  <<v[1] + r[1], v[2] + r[2]>>

\* get_embedding's substitute for a failed call: [0.0] * 1024
ZeroVector == <<0, 0>>

(***************************************************************************)
(* Cosine similarity and ranking.                                           *)
(***************************************************************************)
Dot(a, b) == SumSeq([i \in 1..Len(a) |-> a[i] * b[i]])

DotF(a, b) ==
    LET D == DOMAIN a
        RECURSIVE Go(_)
        Go(T) == IF T = {} THEN 0
                 ELSE LET t == CHOOSE x \in T : TRUE
                      IN  a[t] * b[t] + Go(T \ {t})
    IN  Go(D)

\* The cosine of a stored row with the query vector, kept exact as the
\* signed square over the row's squared norm: sign(d) * d^2 / |row|^2 (the
\* query's norm is the same for every row; a zero row or a zero query gives
\* similarity 0, as sklearn's cosine_similarity does).
SimKeyOf(d, nn) ==
    IF nn = 0 THEN [num |-> 0, den |-> 1]
    ELSE [num |-> IF d >= 0 THEN d * d ELSE -(d * d), den |-> nn]

KeyLess(a, b) == a.num * b.den < b.num * a.den
KeyEq(a, b) == a.num * b.den = b.num * a.den

\* an argsort whose order of equal keys depends on the call made before
ArgSortByHistory(keys) ==
    LET n == Len(keys)
        Before(i, j) ==
            \/ KeyLess(keys[i], keys[j])
            \/ /\ KeyEq(keys[i], keys[j])
               /\ IF call.op = "add_documents" THEN i < j ELSE i > j
        rank(i) == 1 + Cardinality({ j \in 1..n : Before(j, i) })
    IN  [r \in 1..n |-> CHOOSE i \in 1..n : rank(i) = r]

\* numpy argsort (default kind, not stable): ascending by key; the order of
\* equal keys is the sort's, fixed for a build (sortKind).
ArgSort(keys) ==
    LET n == Len(keys)
        Before(i, j) ==
            \/ KeyLess(keys[i], keys[j])
            \/ /\ KeyEq(keys[i], keys[j])
               /\ IF sortKind = "stable" THEN i < j ELSE i > j
        rank(i) == 1 + Cardinality({ j \in 1..n : Before(j, i) })
    IN  [r \in 1..n |-> CHOOSE i \in 1..n : rank(i) = r]

\* a descending sort that leaves equal scores latest first
SortDescLatestFirst(scores) ==
    LET n == Len(scores)
        Before(i, j) ==
            scores[i] > scores[j] \/ (scores[i] = scores[j] /\ i > j)
        rank(i) == 1 + Cardinality({ j \in 1..n : Before(j, i) })
    IN  [r \in 1..n |-> CHOOSE i \in 1..n : rank(i) = r]

\* Python's list.sort(key, reverse=True): descending, stable.
SortDesc(scores) ==
    LET n == Len(scores)
        Before(i, j) ==
            scores[i] > scores[j] \/ (scores[i] = scores[j] /\ i < j)
        rank(i) == 1 + Cardinality({ j \in 1..n : Before(j, i) })
    IN  [r \in 1..n |-> CHOOSE i \in 1..n : rank(i) = r]

(***************************************************************************)
(* State after construction: no store object yet.  sortKind is the order    *)
(* the build's argsort leaves equal keys in.                                *)
(***************************************************************************)
NoCall == [op |-> "none", query |-> <<>>, k |-> 0, chunks |-> <<>>, up |-> TRUE]
NoRet == [status |-> "none", rows |-> <<>>, value |-> None]

\* handlers.py: the chats, the messages by number of arrival, a message
\* with no handler started, no reply sent
Chats == {1, 2}
Messages == 1..MaxMessages
NoText == [by |-> "none", what |-> "none"]
NoTask == [kind |-> "none", chat |-> 0, pc |-> "none", said |-> NoText,
           attempt |-> 0, restarted |-> FALSE, end |-> "none"]
NoReply == [chat |-> 0, kind |-> "none", balance |-> 0]

\* no second store object
NoTwin == [kind |-> None, documents |-> <<>>, embeddings |-> NoEmbeddings,
           vectorizer |-> Unfitted, call |-> NoCall, ret |-> NoRet]

\* rag.py: no store returned by reindex_all, no retrieval asked, no result
NoStore == [epoch |-> 0, documents |-> <<>>, embeddings |-> NoEmbeddings,
            vectorizer |-> Unfitted]
NoRequest == [query |-> <<>>, k |-> 0]
NoAnswer == [status |-> "none", epoch |-> 0, chunks |-> <<>>]

Init ==
    /\ kind = None
    /\ documents = <<>>
    /\ embeddings = NoEmbeddings
    /\ vectorizer = Unfitted
    /\ vector_store = NoIndex
    /\ substituted = <<>>
    /\ fresh = 0
    /\ adds = 0
    /\ failed = FALSE
    /\ call = NoCall
    /\ ret = NoRet
    /\ sortKind \in {"stable", "reverse"}
    /\ built = NoStore
    /\ retriever = None
    /\ pc = "idle"
    /\ request = NoRequest
    /\ partial = <<>>
    /\ answer = NoAnswer
    /\ epoch = 0
    /\ reindexes = 0
    /\ atStart = NoAnswer
    /\ twin = NoTwin
    /\ chat_conversations = [c \in Chats |-> <<>>]
    /\ transactions = [c \in Chats |-> <<>>]
    /\ task = [m \in Messages |-> NoTask]
    /\ received = 0
    /\ reply = NoReply

\* __init__ of one of the store classes
New(kd) ==
    /\ kind = None
    /\ kind' = kd
    /\ call' = [NoCall EXCEPT !.op = "__init__"]
    /\ ret' = [NoRet EXCEPT !.status = "ok"]
    /\ UNCHANGED <<documents, embeddings, vectorizer, vector_store,
                   substituted, fresh, adds, failed, sortKind, botvars, twin, ragvars>>

(***************************************************************************)
(* add_documents                                                            *)
(***************************************************************************)
Contents(docs) == [i \in 1..Len(docs) |-> docs[i].page_content]

\* add_documents that extends the list the store holds, as the embedding
\* stores do, where LocalVectorStore assigns it
TfidfAddDocumentsExtend(kd, docs, oldEmb, oldVec) ==
    LET all == (IF Len(documents) + Len(docs) <= MaxDocs
                THEN documents ELSE <<>>) \o docs
        f == Fit(kd, Contents(all))
    IN  IF f.error # None
        THEN [status |-> "raised", documents |-> all,
              embeddings |-> oldEmb, vectorizer |-> oldVec]
        ELSE [status |-> "ok", documents |-> all,
              embeddings |-> Matrix([i \in 1..Len(all) |->
                                 Transform(kd, f, all[i].page_content)]),
              vectorizer |-> f]

\* add_documents that indexes the source named in the metadata as one more
\* word of the chunk
TfidfAddDocumentsWithSource(kd, docs, oldEmb, oldVec) ==
    LET text(d) == d.page_content \o <<d.metadata.source>>
        f == Fit(kd, [i \in 1..Len(docs) |-> text(docs[i])])
    IN  IF f.error # None
        THEN [status |-> "raised", documents |-> docs,
              embeddings |-> oldEmb, vectorizer |-> oldVec]
        ELSE [status |-> "ok", documents |-> docs,
              embeddings |-> Matrix([i \in 1..Len(docs) |->
                                 Transform(kd, f, text(docs[i]))]),
              vectorizer |-> f]

\* LocalVectorStore.add_documents: documents are assigned first, then the
\* vectorizer is fitted; a ValueError of fit_transform leaves the old
\* vectorizer and matrix in place.
TfidfAddDocuments(kd, docs, oldEmb, oldVec) ==
    LET f == Fit(kd, Contents(docs))
    IN  IF f.error # None
        THEN [status |-> "raised", documents |-> docs,
              embeddings |-> oldEmb, vectorizer |-> oldVec]
        ELSE [status |-> "ok", documents |-> docs,
              embeddings |-> Matrix([i \in 1..Len(docs) |->
                                 Transform(kd, f, docs[i].page_content)]),
              vectorizer |-> f]

\* np.atleast_2d, as np.vstack applies it
AtLeast2D(a) == IF a.shape = "1d" THEN << <<>> >> ELSE a.rows

\* np.vstack([a, b]): the rows of both, or a ValueError when their widths
\* differ.
VStack(a, b) ==
    LET x == AtLeast2D(a)
        y == AtLeast2D(b)
    IN  IF Len(x[1]) # Len(y[1]) THEN [error |-> "ValueError", array |-> a]
        ELSE [error |-> None, array |-> Matrix(x \o y)]

\* the tail of the two embedding stores' add_documents: first batch is
\* stored as it is, later ones are stacked under the matrix.
Stacked(old, new) ==
    IF old.shape = "None" THEN [error |-> None, array |-> new]
    ELSE VStack(old, new)

\* np.array(list of vectors): an empty list gives an array of shape (0,)
NpArray(vs) == IF vs = <<>> THEN Empty1D ELSE Matrix(vs)

AddDocumentsTfidf(batch) ==
    /\ kind \in TfidfKinds
    /\ LET r == TfidfAddDocuments(kind, MakeDocs(batch),
                                  embeddings, vectorizer)
       IN  /\ documents' = r.documents
           /\ embeddings' = r.embeddings
           /\ vectorizer' = r.vectorizer
           /\ ret' = [NoRet EXCEPT !.status = r.status]
           /\ failed' = (failed \/ r.status = "raised")
    /\ UNCHANGED <<vector_store, substituted>>

\* LocalEmbeddingVectorStore.add_documents; ok: model.encode returned
AddDocumentsLocalEmb(batch, ok) ==
    /\ kind = "local_emb"
    /\ documents' = documents \o MakeDocs(batch)
    /\ LET new == NpArray([i \in 1..Len(batch) |-> Embed(batch[i])])
           st == Stacked(embeddings, new)
       IN  IF ok /\ st.error = None
           THEN /\ embeddings' = st.array
                /\ ret' = [NoRet EXCEPT !.status = "ok"]
                /\ failed' = failed
           ELSE /\ embeddings' = embeddings
                /\ ret' = [NoRet EXCEPT !.status = "raised"]
                /\ failed' = TRUE
    /\ UNCHANGED <<vectorizer, vector_store, substituted>>

\* OllamaEmbeddingVectorStore.get_embedding: the provider's vector, or the
\* zero vector when the request failed
get_embedding(text, up) == IF up THEN Embed(text) ELSE ZeroVector

\* OllamaEmbeddingVectorStore.add_documents; down: the positions of the
\* batch whose embedding request failed
AddDocumentsOllama(batch, down) ==
    /\ kind = "ollama"
    /\ documents' = documents \o MakeDocs(batch)
    /\ LET new == NpArray([i \in 1..Len(batch) |->
                              get_embedding(batch[i], i \notin down)])
           st == Stacked(embeddings, new)
       IN  IF st.error = None
           THEN /\ embeddings' = st.array
                /\ substituted' =
                       substituted \o [i \in 1..Len(batch) |-> i \in down]
                /\ ret' = [NoRet EXCEPT !.status = "ok"]
                /\ failed' = failed
           ELSE /\ embeddings' = embeddings
                /\ substituted' = substituted
                /\ ret' = [NoRet EXCEPT !.status = "raised"]
                /\ failed' = TRUE
    /\ UNCHANGED <<vectorizer, vector_store>>

\* OllamaVectorStore.add_documents; up: OllamaEmbeddings answered.  FAISS
\* keeps its own documents beside the vectors.  from_documents of an empty
\* list fails on embeddings[0]; adding an empty list to an existing index
\* either does nothing or is refused by the index (emptyOk).
AddDocumentsFaiss(batch, up, emptyOk) ==
    /\ kind = "ollama_lc"
    /\ documents' = documents \o MakeDocs(batch)
    /\ LET new == [i \in 1..Len(batch) |->
                      [page_content |-> batch[i], pos |-> Len(documents) + i,
                       vec |-> Embed(batch[i])]]
           good == /\ up
                   /\ batch = <<>> => (vector_store.built /\ emptyOk)
       IN  IF good
           THEN /\ vector_store' =
                       [built |-> TRUE, items |-> vector_store.items \o new]
                /\ ret' = [NoRet EXCEPT !.status = "ok"]
                /\ failed' = failed
           ELSE /\ vector_store' = vector_store
                /\ ret' = [NoRet EXCEPT !.status = "raised"]
                /\ failed' = TRUE
    /\ UNCHANGED <<embeddings, vectorizer, substituted>>

\* The embedding requests of one call that fail: none, the last one, all.
DownPatterns(n) == { {}, {n} \cap (1..n), 1..n }

AddDocuments(batch) ==
    /\ kind \in Kinds
    /\ kind \in AppendKinds => batch \in AppendBatches
    /\ Len(batch) + (IF kind \in AppendKinds THEN Len(documents) ELSE 0)
           <= MaxDocs
    /\ (kind \in AppendKinds /\ batch = <<>>) =>
           Len(embeddings.rows) < MaxDocs
    /\ fresh' = Len(batch)
    /\ adds' = (IF adds = 0 THEN 1 ELSE 2)
    /\ call' = [NoCall EXCEPT !.op = "add_documents", !.chunks = batch]
    /\ \/ AddDocumentsTfidf(batch)
       \/ \E ok \in BOOLEAN : AddDocumentsLocalEmb(batch, ok)
       \/ \E down \in DownPatterns(Len(batch)) :
              AddDocumentsOllama(batch, down)
       \/ \E up, emptyOk \in BOOLEAN : AddDocumentsFaiss(batch, up, emptyOk)
    /\ UNCHANGED <<kind, sortKind, botvars, twin, ragvars>>

(***************************************************************************)
(* similarity_search                                                        *)
(***************************************************************************)
\* cosine_similarity(query_vec, self.embeddings) of the TF-IDF stores
TfidfSimilarities(qvec) ==
    LET m == embeddings.rows
    IN  [i \in 1..Len(m) |-> SimKeyOf(DotF(m[i], qvec), DotF(m[i], m[i]))]

\* cosine_similarity(query_embedding, self.embeddings)[0] of the embedding
\* stores
DenseSimilarities(qvec) ==
    LET m == embeddings.rows
    IN  [i \in 1..Len(m) |-> SimKeyOf(Dot(m[i], qvec), Dot(m[i], m[i]))]

\* argsort()[-k:] without the [::-1]
TopIndicesAscending(sims, k) == SliceLast(ArgSort(sims), k)

\* argsort()[::-1] without the [-k:]
TopIndicesAll(sims, k) == Reverse(ArgSort(sims))

\* similarities.argsort()[-k:][::-1]
TopIndices(sims, k) == Reverse(SliceLast(ArgSort(sims), k))

\* similarity_search without the `if similarities[idx] > 0` test
TfidfSimilaritySearchUnfiltered(query, k) ==
    IF embeddings.shape = "None" \/ Len(documents) = 0
    THEN [NoRet EXCEPT !.status = "ok"]
    ELSE LET sims == TfidfSimilarities(Transform(kind, vectorizer, query))
             hits == TopIndices(sims, k)
         IN  IF \E j \in 1..Len(hits) : hits[j] > Len(documents)
             THEN [NoRet EXCEPT !.status = "raised"]
             ELSE [NoRet EXCEPT !.status = "ok", !.rows = hits]

\* similarity_search with `>= 0` where the code has `> 0`
TfidfSimilaritySearchNonNegative(query, k) ==
    IF embeddings.shape = "None" \/ Len(documents) = 0
    THEN [NoRet EXCEPT !.status = "ok"]
    ELSE LET sims == TfidfSimilarities(Transform(kind, vectorizer, query))
             top == TopIndices(sims, k)
             hits == SelectSeq(top, LAMBDA i : sims[i].num >= 0)
         IN  IF \E j \in 1..Len(hits) : hits[j] > Len(documents)
             THEN [NoRet EXCEPT !.status = "raised"]
             ELSE [NoRet EXCEPT !.status = "ok", !.rows = hits]

\* LocalVectorStore.similarity_search: the top k rows, of which those with
\* a positive similarity give documents[idx] (an IndexError when the matrix
\* has more rows than there are documents).
TfidfSimilaritySearch(query, k) ==
    IF embeddings.shape = "None" \/ Len(documents) = 0
    THEN [NoRet EXCEPT !.status = "ok"]
    ELSE LET sims == TfidfSimilarities(Transform(kind, vectorizer, query))
             top == TopIndices(sims, k)
             hits == SelectSeq(top, LAMBDA i : sims[i].num > 0)
         IN  IF \E j \in 1..Len(hits) : hits[j] > Len(documents)
             THEN [NoRet EXCEPT !.status = "raised"]
             ELSE [NoRet EXCEPT !.status = "ok", !.rows = hits]

\* LocalEmbeddingVectorStore / OllamaEmbeddingVectorStore.similarity_search
\* with the query's vector qvec: the top k rows, whatever their similarity.
\* cosine_similarity refuses a missing, one-dimensional or zero-width matrix.
DenseSimilaritySearch(qvec, k) ==
    IF documents = <<>>
    THEN [NoRet EXCEPT !.status = "ok"]
    ELSE IF embeddings.shape # "2d"
    THEN [NoRet EXCEPT !.status = "raised"]
    ELSE IF Len(embeddings.rows[1]) # Len(qvec)
    THEN [NoRet EXCEPT !.status = "raised"]
    ELSE [NoRet EXCEPT !.status = "ok",
                       !.rows = TopIndices(DenseSimilarities(qvec), k)]

\* FAISS similarity_search behind OllamaVectorStore: the k vectors nearest
\* to the query in L2 distance, nearest first.
FaissSimilaritySearch(qvec, k) ==
    LET dist(v) == (v[1] - qvec[1]) * (v[1] - qvec[1])
                   + (v[2] - qvec[2]) * (v[2] - qvec[2])
        keys == [i \in 1..Len(vector_store.items) |->
                    [num |-> -dist(vector_store.items[i].vec), den |-> 1]]
    IN  [NoRet EXCEPT !.status = "ok", !.rows = TopIndices(keys, k)]

\* Calls with k <= 0 are followed for the two LocalVectorStore classes; the
\* embedding stores are asked for k >= 1 (what FAISS does with another k is
\* not part of this repository).
SimilaritySearch(query, k) ==
    /\ kind \in Kinds
    /\ kind \notin TfidfKinds => k >= 1
    /\ \E up \in BOOLEAN :
        /\ call' = [NoCall EXCEPT !.op = "similarity_search",
                                  !.query = query, !.k = k, !.up = up]
        /\ CASE kind \in TfidfKinds ->
                  up /\ ret' = TfidfSimilaritySearch(query, k)
             [] kind = "local_emb" ->
                  up /\ ret' = DenseSimilaritySearch(Embed(query), k)
             [] kind = "ollama" ->
                  ret' = DenseSimilaritySearch(get_embedding(query, up), k)
             [] kind = "ollama_lc" ->
                  ret' = IF ~vector_store.built
                         THEN [NoRet EXCEPT !.status = "ok"]
                         ELSE IF ~up
                         THEN [NoRet EXCEPT !.status = "raised"]
                         ELSE FaissSimilaritySearch(Embed(query), k)
    /\ UNCHANGED <<kind, documents, embeddings, vectorizer, vector_store,
                   substituted, fresh, adds, failed, sortKind, botvars, twin, ragvars>>

(***************************************************************************)
(* keyword_search                                                           *)
(***************************************************************************)
\* str.count: the occurrences of word w inside the word c
RECURSIVE CountFrom(_, _, _)
CountFrom(w, c, i) ==
    IF i + Len(w) - 1 > Len(c) THEN 0
    ELSE IF SubSeq(c, i, i + Len(w) - 1) = w
    THEN 1 + CountFrom(w, c, i + Len(w))
    ELSE CountFrom(w, c, i + 1)

Occurrences(w, c) == CountFrom(w, c, 1)

\* content.count(word) over the lower-cased content
ContentCount(w, text) ==
    SumSeq([i \in 1..Len(text) |-> Occurrences(w, Lower(text[i]))])

\* indexer_with_json.LocalVectorStore.keyword_search: the score of a chunk
JsonScore(query, text) ==
    LET qw == LowerAll(query)
    IN  SumSeq([i \in 1..Len(qw) |->
                   IF Len(qw[i]) > 3
                   THEN ContentCount(qw[i], text) * Len(qw[i])
                   ELSE 0])

\* keyword_search without the `if score > 0` test
JsonKeywordSearchUnfiltered(query, k) ==
    IF documents = <<>>
    THEN [NoRet EXCEPT !.status = "ok"]
    ELSE LET score == [i \in 1..Len(documents) |->
                          JsonScore(query, documents[i].page_content)]
             scored == SelectSeq([i \in 1..Len(documents) |-> i],
                                 LAMBDA i : score[i] >= 0)
             order == SortDesc([j \in 1..Len(scored) |-> score[scored[j]]])
             sorted == [j \in 1..Len(scored) |-> scored[order[j]]]
         IN  [NoRet EXCEPT !.status = "ok", !.rows = SliceFirst(sorted, k)]

JsonKeywordSearch(query, k) ==
    IF documents = <<>>
    THEN [NoRet EXCEPT !.status = "ok"]
    ELSE LET score == [i \in 1..Len(documents) |->
                          JsonScore(query, documents[i].page_content)]
             scored == SelectSeq([i \in 1..Len(documents) |-> i],
                                 LAMBDA i : score[i] > 0)
             order == SortDesc([j \in 1..Len(scored) |-> score[scored[j]]])
             sorted == [j \in 1..Len(scored) |-> scored[order[j]]]
         IN  [NoRet EXCEPT !.status = "ok", !.rows = SliceFirst(sorted, k)]

\* keyword_search of the three embedding stores: the number of query words
\* among the chunk's words
SetScore(query, text) ==
    Cardinality(Range(LowerAll(query)) \cap Range(LowerAll(text)))

SetKeywordSearch(query, k) ==
    IF documents = <<>>
    THEN [NoRet EXCEPT !.status = "ok"]
    ELSE LET score == [i \in 1..Len(documents) |->
                          SetScore(query, documents[i].page_content)]
             order == SortDesc(score)
         IN  [NoRet EXCEPT !.status = "ok",
                           !.rows = SelectSeq(SliceFirst(order, k),
                                              LAMBDA i : score[i] > 0)]

KeywordSearch(query, k) ==
    /\ kind \in {"tfidf_json"} \cup AppendKinds
    /\ kind # "tfidf_json" => k >= 1
    /\ call' = [NoCall EXCEPT !.op = "keyword_search",
                              !.query = query, !.k = k]
    /\ ret' = IF kind = "tfidf_json" THEN JsonKeywordSearch(query, k)
              ELSE SetKeywordSearch(query, k)
    /\ UNCHANGED <<kind, documents, embeddings, vectorizer, vector_store,
                   substituted, fresh, adds, failed, sortKind, botvars, twin, ragvars>>

(***************************************************************************)
(* indexer.py: create_vector_store and reindex_all                          *)
(***************************************************************************)
\* create_vector_store(chunks); up: the OpenAI embeddings answered.  With
\* the provider down a LocalVectorStore is built and the chunks are added
\* to it; an exception of that add_documents leaves the function.
create_vector_store(chunks, up) ==
    IF up
    THEN [status |-> "ok", kind |-> "inmemory", documents |-> <<>>,
          embeddings |-> NoEmbeddings, vectorizer |-> Unfitted]
    ELSE LET r == TfidfAddDocuments("tfidf", MakeDocs(chunks),
                                    NoEmbeddings, Unfitted)
         IN  IF r.status = "ok"
             THEN [status |-> "ok", kind |-> "tfidf",
                   documents |-> r.documents, embeddings |-> r.embeddings,
                   vectorizer |-> r.vectorizer]
             ELSE [status |-> "raised", kind |-> None, documents |-> <<>>,
                   embeddings |-> NoEmbeddings, vectorizer |-> Unfitted]

CreateVectorStore(chunks, up) ==
    /\ kind = None
    /\ LET r == create_vector_store(chunks, up)
       IN  /\ kind' = r.kind
           /\ documents' = r.documents
           /\ embeddings' = r.embeddings
           /\ vectorizer' = r.vectorizer
           /\ ret' = [NoRet EXCEPT !.status = r.status,
                         !.value = IF r.status = "ok" THEN "store" ELSE None]
           /\ fresh' = Len(r.documents)
           /\ adds' = (IF r.kind = "tfidf" THEN 1 ELSE 0)
    /\ call' = [NoCall EXCEPT !.op = "create_vector_store",
                              !.chunks = chunks, !.up = up]
    /\ UNCHANGED <<vector_store, substituted, failed, sortKind, botvars, twin, ragvars>>

\* reindex_all; chunks: what load_pdf_documents and split_documents gave.
\* No chunks, or any exception, give None.
ReindexAll(chunks, up) ==
    /\ kind = None
    /\ LET r == IF chunks = <<>>
                THEN [status |-> "raised", kind |-> None, documents |-> <<>>,
                      embeddings |-> NoEmbeddings, vectorizer |-> Unfitted]
                ELSE create_vector_store(chunks, up)
       IN  /\ kind' = r.kind
           /\ documents' = r.documents
           /\ embeddings' = r.embeddings
           /\ vectorizer' = r.vectorizer
           /\ ret' = [NoRet EXCEPT !.status = "ok",
                         !.value = IF r.status = "ok" THEN "store" ELSE None]
           /\ fresh' = Len(r.documents)
           /\ adds' = (IF r.kind = "tfidf" THEN 1 ELSE 0)
    /\ call' = [NoCall EXCEPT !.op = "reindex_all",
                              !.chunks = chunks, !.up = up]
    /\ UNCHANGED <<vector_store, substituted, failed, sortKind, botvars, twin, ragvars>>

Next ==
    \/ \E kd \in Kinds : New(kd)
    \/ \E batch \in Batches : AddDocuments(batch)
    \/ \E query \in Queries, k \in Ks : SimilaritySearch(query, k)
    \/ \E query \in Queries, k \in Ks : KeywordSearch(query, k)
    \/ \E chunks \in Batches, up \in BOOLEAN : CreateVectorStore(chunks, up)
    \/ \E chunks \in Batches, up \in BOOLEAN : ReindexAll(chunks, up)

Spec == Init /\ [][Next]_vars

(***************************************************************************)
(* rag.py over the LocalVectorStore of indexer_with_json.py                 *)
(***************************************************************************)
\* the chunk lists load_pdf_documents / load_json_documents give a reindex
RagBatches == { <<>>, <<B>>, <<B, BC, B>>, <<BC, B, L>> }

\* fallback_answer searches with k=3
FallbackK == 3

\* indexer_with_json.create_vector_store: a new LocalVectorStore with the
\* chunks added
create_vector_store_json(chunks) ==
    TfidfAddDocuments("tfidf_json", MakeDocs(chunks), NoEmbeddings, Unfitted)

\* indexer_with_json.reindex_all: None without chunks or on any exception,
\* else the new store; the installed store is not touched.
JsonReindexAll(chunks) ==
    /\ reindexes < MaxReindex
    /\ reindexes' = reindexes + 1
    /\ LET r == create_vector_store_json(chunks)
           stored == chunks # <<>> /\ r.status = "ok"
       IN  /\ built' = IF stored
                       THEN [epoch |-> reindexes + 1,
                             documents |-> r.documents,
                             embeddings |-> r.embeddings,
                             vectorizer |-> r.vectorizer]
                       ELSE NoStore
           /\ ret' = [NoRet EXCEPT !.status = "ok",
                         !.value = IF stored THEN "store" ELSE None]
    /\ call' = [NoCall EXCEPT !.op = "reindex_all", !.chunks = chunks]
    /\ UNCHANGED <<kind, documents, embeddings, vectorizer, vector_store,
                   substituted, fresh, adds, failed, sortKind, botvars, twin, retriever,
                   pc, request, partial, answer, epoch, atStart>>

\* the caller's rag.vector_store = <the store reindex_all returned>
SetVectorStore ==
    /\ built # NoStore
    /\ kind' = "tfidf_json"
    /\ documents' = built.documents
    /\ embeddings' = built.embeddings
    /\ vectorizer' = built.vectorizer
    /\ epoch' = built.epoch
    /\ fresh' = Len(built.documents)
    /\ adds' = 1
    /\ built' = NoStore
    /\ call' = [NoCall EXCEPT !.op = "set vector_store"]
    /\ ret' = [NoRet EXCEPT !.status = "ok"]
    /\ UNCHANGED <<vector_store, substituted, failed, sortKind, botvars, twin, retriever,
                   pc, request, partial, answer, reindexes, atStart>>

\* initialize_retriever: False without a store, else local_retriever is
\* installed (the store is an indexer_with_json.LocalVectorStore)
InitializeRetriever ==
    /\ kind \in {None, "tfidf_json"}
    /\ retriever' = IF kind = None THEN retriever ELSE "local_retriever"
    /\ call' = [NoCall EXCEPT !.op = "initialize_retriever"]
    /\ ret' = [NoRet EXCEPT !.status = "ok",
                  !.value = IF kind = None THEN "False" ELSE "True"]
    /\ UNCHANGED <<kind, documents, embeddings, vectorizer, vector_store,
                   substituted, fresh, adds, failed, sortKind, botvars, twin, built, pc,
                   request, partial, answer, epoch, reindexes, atStart>>

\* the chunks at the given rows of the installed store
Chunks(status, rows) ==
    [status |-> status, epoch |-> epoch,
     chunks |-> [i \in 1..Len(rows) |-> documents[rows[i]].page_content]]

\* a retrieval that falls back whenever similarity_search found fewer than
\* k chunks
RetrievedWhenShort(query, k) ==
    LET s == TfidfSimilaritySearch(query, k)
    IN  IF s.status = "raised"
        THEN [partial |-> <<>>, op |-> "similarity_search",
              answer |-> Chunks("raised", <<>>)]
        ELSE IF Len(s.rows) >= k
        THEN [partial |-> Chunks("ok", s.rows).chunks,
              op |-> "similarity_search",
              answer |-> Chunks("ok", s.rows)]
        ELSE [partial |-> Chunks("ok", s.rows).chunks,
              op |-> "keyword_search",
              answer |-> Chunks("ok", JsonKeywordSearch(query, k).rows)]

\* similarity_search first and keyword_search when it found nothing, as
\* local_retriever and the retrieval step of fallback_answer do, run on the
\* installed store without interruption: what similarity_search gave, the
\* last search called, and the result
Retrieved(query, k) ==
    LET s == TfidfSimilaritySearch(query, k)
    IN  IF s.status = "raised"
        THEN [partial |-> <<>>, op |-> "similarity_search",
              answer |-> Chunks("raised", <<>>)]
        ELSE IF s.rows # <<>>
        THEN [partial |-> Chunks("ok", s.rows).chunks,
              op |-> "similarity_search",
              answer |-> Chunks("ok", s.rows)]
        ELSE [partial |-> <<>>, op |-> "keyword_search",
              answer |-> Chunks("ok", JsonKeywordSearch(query, k).rows)]

\* local_retriever, first half: similarity_search on rag.vector_store
RetrieverSimilaritySearch(query, k) ==
    /\ retriever = "local_retriever"
    /\ pc \in {"idle", "done"}
    /\ request' = [query |-> query, k |-> k]
    /\ atStart' = Retrieved(query, k).answer
    /\ call' = [NoCall EXCEPT !.op = "similarity_search",
                              !.query = query, !.k = k]
    /\ LET s == TfidfSimilaritySearch(query, k)
       IN  /\ ret' = s
           /\ partial' = Chunks("ok", s.rows).chunks
           /\ IF s.status = "ok" /\ s.rows = <<>>
              THEN pc' = "keyword" /\ answer' = NoAnswer
              ELSE pc' = "done" /\ answer' = Chunks(s.status, s.rows)
    /\ UNCHANGED <<kind, documents, embeddings, vectorizer, vector_store,
                   substituted, fresh, adds, failed, sortKind, botvars, twin, built,
                   retriever, epoch, reindexes>>

\* local_retriever, second half: keyword_search on what rag.vector_store
\* refers to by now
RetrieverKeywordSearch ==
    /\ pc = "keyword"
    /\ call' = [NoCall EXCEPT !.op = "keyword_search",
                              !.query = request.query, !.k = request.k]
    /\ LET w == JsonKeywordSearch(request.query, request.k)
       IN  /\ ret' = w
           /\ answer' = Chunks("ok", w.rows)
    /\ pc' = "done"
    /\ UNCHANGED <<kind, documents, embeddings, vectorizer, vector_store,
                   substituted, fresh, adds, failed, sortKind, botvars, twin, built,
                   retriever, request, partial, epoch, reindexes, atStart>>

\* fallback_answer, its retrieval step: both searches in one piece of the
\* coroutine
FallbackAnswer(query) ==
    /\ kind = "tfidf_json"
    /\ pc \in {"idle", "done"}
    /\ LET r == Retrieved(query, FallbackK)
       IN  /\ request' = [query |-> query, k |-> FallbackK]
           /\ atStart' = r.answer
           /\ partial' = r.partial
           /\ answer' = r.answer
           /\ call' = [NoCall EXCEPT !.op = r.op, !.query = query,
                                     !.k = FallbackK]
           /\ ret' = [NoRet EXCEPT !.status = r.answer.status]
    /\ pc' = "done"
    /\ UNCHANGED <<kind, documents, embeddings, vectorizer, vector_store,
                   substituted, fresh, adds, failed, sortKind, botvars, twin, built,
                   retriever, epoch, reindexes>>

\* what rag_answer is called with: no messages, or a dialogue whose last
\* message is the query
RagMessages == { <<>> } \cup { <<query>> : query \in Queries }

\* the RAG chain of one call: get_rag_chain and ainvoke give the answer, or
\* get_rag_chain raises (a prompt file is missing, no LLM client can be
\* made), or ainvoke raises
ChainRuns == {"answers", "cannot be built", "raises"}

\* the strings rag_answer returns
AnswerTexts == {"chain answer", "cannot process", "found chunks",
                "nothing found", "search error"}

Returns(text) == [NoRet EXCEPT !.status = "ok", !.value = text]
Raises(exception) == [NoRet EXCEPT !.status = "raised", !.value = exception]

\* a fallback_answer whose search is not inside try
fallback_answerUncaught(messages, broken) ==
    IF messages = <<>>
    THEN Returns("cannot process")
    ELSE LET r == Retrieved(messages[Len(messages)], FallbackK).answer
         IN  IF broken \/ r.status = "raised" THEN Raises("Exception")
             ELSE IF r.chunks # <<>> THEN Returns("found chunks")
             ELSE Returns("nothing found")

\* fallback_answer; broken: something inside its try block raises (the
\* import of LocalVectorStore, a search, the formatting)
fallback_answer(messages, broken) ==
    IF messages = <<>>
    THEN Returns("cannot process")
    ELSE LET r == Retrieved(messages[Len(messages)], FallbackK).answer
         IN  IF broken \/ r.status = "raised" THEN Returns("search error")
             ELSE IF r.chunks # <<>> THEN Returns("found chunks")
             ELSE Returns("nothing found")

\* rag_answer: the check of the two globals, then the chain inside try and
\* fallback_answer in `except Exception`
rag_answer(messages, chain, broken) ==
    IF kind = None \/ retriever = None
    THEN Raises("ValueError")
    ELSE IF chain = "answers"
    THEN Returns("chain answer")
    ELSE fallback_answer(messages, broken)

\* one call of rag_answer, from the check of the globals to its return.
\* The retrieval the chain itself makes is local_retriever, above.
RagAnswer(messages, chain, broken) ==
    /\ pc \in {"idle", "done"}
    /\ call' = [NoCall EXCEPT !.op = "rag_answer",
                              !.query = IF messages = <<>> THEN <<>>
                                        ELSE messages[Len(messages)]]
    /\ ret' = rag_answer(messages, chain, broken)
    /\ UNCHANGED <<kind, documents, embeddings, vectorizer, vector_store,
                   substituted, fresh, adds, failed, sortKind, botvars, twin,
                   ragvars>>

RagNext ==
    \/ \E chunks \in RagBatches : JsonReindexAll(chunks)
    \/ SetVectorStore
    \/ InitializeRetriever
    \/ \E query \in Queries, k \in RetrieverKs :
           RetrieverSimilaritySearch(query, k)
    \/ RetrieverKeywordSearch
    \/ \E query \in Queries : FallbackAnswer(query)

RagSpec == Init /\ [][RagNext]_vars

\* rag_answer called at any moment of the indexing of the store and of the
\* installation of the retriever
AnswerNext ==
    \/ \E chunks \in RagBatches : JsonReindexAll(chunks)
    \/ SetVectorStore
    \/ InitializeRetriever
    \/ \E messages \in RagMessages, chain \in ChainRuns, broken \in BOOLEAN :
           RagAnswer(messages, chain, broken)

AnswerSpec == Init /\ [][AnswerNext]_vars

(***************************************************************************)
(* Two LocalVectorStore objects of one class, each built once from a list   *)
(* of Documents that carry metadata, and searched.                          *)
(***************************************************************************)
TwinBatches == { <<B>>, <<B, BC, B>>, <<L, BC, L>> }

\* metadata["source"] of the chunks of a batch; the names are words that
\* chunks and queries hold as well
Sources == {"bank", "loan"}

TwinQueries == { <<"Bank">>, <<"loan">> }

\* Documents with page_content and metadata
MakeDocsFrom(batch, source) ==
    [i \in 1..Len(batch) |->
        [page_content |-> batch[i], metadata |-> [source |-> source]]]

\* LocalVectorStore() twice, of indexer.py or of indexer_with_json.py
TwinNew(kd) ==
    /\ kind = None
    /\ twin = NoTwin
    /\ kind' = kd
    /\ call' = [NoCall EXCEPT !.op = "__init__"]
    /\ ret' = [NoRet EXCEPT !.status = "ok"]
    /\ twin' = [NoTwin EXCEPT !.kind = kd,
                              !.call = [NoCall EXCEPT !.op = "__init__"],
                              !.ret = [NoRet EXCEPT !.status = "ok"]]
    /\ UNCHANGED <<documents, embeddings, vectorizer, vector_store,
                   substituted, fresh, adds, failed, sortKind, botvars, ragvars>>

\* add_documents on the store the caller holds, which was not built yet
TwinAddDocuments(batch, source) ==
    /\ kind \in TfidfKinds
    /\ twin.kind = kind
    /\ call.op = "__init__"
    /\ LET r == TfidfAddDocuments(kind, MakeDocsFrom(batch, source),
                                  embeddings, vectorizer)
       IN  /\ documents' = r.documents
           /\ embeddings' = r.embeddings
           /\ vectorizer' = r.vectorizer
           /\ ret' = [NoRet EXCEPT !.status = r.status]
    /\ call' = [NoCall EXCEPT !.op = "add_documents", !.chunks = batch]
    /\ UNCHANGED <<kind, vector_store, substituted, fresh, adds, failed,
                   sortKind, botvars, ragvars, twin>>

TwinSimilaritySearch(query, k) ==
    /\ kind \in TfidfKinds
    /\ twin.kind = kind
    /\ call.op # "__init__"
    /\ call' = [NoCall EXCEPT !.op = "similarity_search",
                              !.query = query, !.k = k]
    /\ ret' = TfidfSimilaritySearch(query, k)
    /\ UNCHANGED <<kind, documents, embeddings, vectorizer, vector_store,
                   substituted, fresh, adds, failed, sortKind, botvars, ragvars, twin>>

TwinKeywordSearch(query, k) ==
    /\ kind = "tfidf_json"
    /\ twin.kind = kind
    /\ call.op # "__init__"
    /\ call' = [NoCall EXCEPT !.op = "keyword_search",
                              !.query = query, !.k = k]
    /\ ret' = JsonKeywordSearch(query, k)
    /\ UNCHANGED <<kind, documents, embeddings, vectorizer, vector_store,
                   substituted, fresh, adds, failed, sortKind, botvars, ragvars, twin>>

\* the caller turns to the other store object
TurnToOther ==
    /\ kind \in TfidfKinds
    /\ twin.kind = kind
    /\ documents' = twin.documents
    /\ embeddings' = twin.embeddings
    /\ vectorizer' = twin.vectorizer
    /\ call' = twin.call
    /\ ret' = twin.ret
    /\ twin' = [kind |-> kind, documents |-> documents,
                embeddings |-> embeddings, vectorizer |-> vectorizer,
                call |-> call, ret |-> ret]
    /\ UNCHANGED <<kind, vector_store, substituted, fresh, adds, failed,
                   sortKind, botvars, ragvars>>

TwinNext ==
    \/ \E kd \in TfidfKinds : TwinNew(kd)
    \/ \E batch \in TwinBatches, source \in Sources :
           TwinAddDocuments(batch, source)
    \/ \E query \in TwinQueries, k \in RetrieverKs :
           TwinSimilaritySearch(query, k)
    \/ \E query \in TwinQueries, k \in RetrieverKs :
           TwinKeywordSearch(query, k)
    \/ TurnToOther

TwinSpec == Init /\ [][TwinNext]_vars

(***************************************************************************)
(* handlers.py: the handlers of the Telegram bot.  The dispatcher runs the  *)
(* handler of every update as a task of its own, so that a handler          *)
(* suspended at an await shares the two dictionaries with the handlers of   *)
(* the messages that arrive meanwhile.  A step is the code between two      *)
(* awaits; awaits that follow each other with no access to the dictionaries *)
(* in between form one step.                                                *)
(***************************************************************************)
max_retries == 3

storevars == <<kind, documents, embeddings, vectorizer, vector_store,
               substituted, fresh, adds, failed, call, ret, sortKind,
               ragvars, twin>>

\* a handler that has returned
Finished(t, end) ==
    [NoTask EXCEPT !.kind = t.kind, !.chat = t.chat, !.pc = "done",
                   !.restarted = t.restarted, !.end = end]

Says(c, what, balance) == [chat |-> c, kind |-> what, balance |-> balance]

\* the first entry of a history: config.SYSTEM_PROMPT_TEXT or _IMAGE
System == [role |-> "system", msg |-> 0]

Typed == [by |-> "user", what |-> "typed"]
Image == [by |-> "user", what |-> "image"]

\* response.transactions of one LLM call
Extracted == { <<>>,
               <<[type |-> "income", amount |-> 5],
                 [type |-> "expense", amount |-> 2]>> }

\* the same transactions, marked with the message they were extracted from
Stamped(txs, m) ==
    [i \in 1..Len(txs) |->
        [type |-> txs[i].type, amount |-> txs[i].amount, msg |-> m]]

\* a balance that adds up every amount, whatever the type
RECURSIVE HandlerBalanceUnsigned(_)
HandlerBalanceUnsigned(txs) ==
    IF txs = <<>> THEN 0
    ELSE Head(txs).amount + HandlerBalanceUnsigned(Tail(txs))

\* sum(t.amount if t.type.value == "income" else -t.amount for t in ...)
RECURSIVE HandlerBalance(_)
HandlerBalance(txs) ==
    IF txs = <<>> THEN 0
    ELSE (IF Head(txs).type = "income" THEN Head(txs).amount
          ELSE 0 - Head(txs).amount) + HandlerBalance(Tail(txs))

\* sum(t.amount for t in user_transactions if t.type.value == type)
RECURSIVE Total(_, _)
Total(txs, type) ==
    IF txs = <<>> THEN 0
    ELSE (IF Head(txs).type = type THEN Head(txs).amount ELSE 0)
         + Total(Tail(txs), type)

\* cmd_balance: balance = total_income - total_expense
ReportBalance(txs) == Total(txs, "income") - Total(txs, "expense")

\* `if chat_id not in chat_conversations: chat_conversations[chat_id] = [...]`
WithHistory(c) ==
    IF chat_conversations[c] = <<>>
    THEN [chat_conversations EXCEPT ![c] = <<System>>]
    ELSE chat_conversations

\* a /start that starts every chat anew
cmd_startEveryChat(c) ==
    /\ chat_conversations' = [d \in Chats |-> <<System>>]
    /\ transactions' = [d \in Chats |-> <<>>]
    /\ reply' = Says(c, "greeting", 0)
    /\ task' = [m \in Messages |->
                   IF task[m].chat = c /\ task[m].pc = "llm"
                   THEN [task[m] EXCEPT !.restarted = TRUE]
                   ELSE task[m]]
    /\ UNCHANGED <<received, storevars>>

\* /start: both entries of the chat are replaced, then the greeting is sent.
\* restarted marks the handlers of the chat that await the LLM meanwhile.
cmd_start(c) ==
    /\ chat_conversations' =
           [chat_conversations EXCEPT ![c] = <<System>>]
    /\ transactions' = [transactions EXCEPT ![c] = <<>>]
    /\ reply' = Says(c, "greeting", 0)
    /\ task' = [m \in Messages |->
                   IF task[m].chat = c /\ task[m].pc = "llm"
                   THEN [task[m] EXCEPT !.restarted = TRUE]
                   ELSE task[m]]
    /\ UNCHANGED <<received, storevars>>

\* /balance
cmd_balance(c) ==
    /\ reply' = IF transactions[c] = <<>>
                THEN Says(c, "no transactions", 0)
                ELSE Says(c, "balance", ReportBalance(transactions[c]))
    /\ UNCHANGED <<chat_conversations, transactions, task, received,
                   storevars>>

\* /transactions: the list of the chat is read and reported
cmd_transactions(c) ==
    /\ reply' = IF transactions[c] = <<>>
                THEN Says(c, "no transactions", 0)
                ELSE Says(c, "transactions", 0)
    /\ UNCHANGED <<chat_conversations, transactions, task, received,
                   storevars>>

\* handle_message up to its first await; blank: the message has no text
HandleMessageBegins(c, blank) ==
    /\ received < MaxMessages
    /\ received' = received + 1
    /\ IF blank
       THEN /\ task' = [task EXCEPT ![received + 1] =
                           Finished([NoTask EXCEPT !.kind = "text",
                                                   !.chat = c], "silent")]
            /\ UNCHANGED chat_conversations
       ELSE /\ task' = [task EXCEPT ![received + 1] =
                           [NoTask EXCEPT !.kind = "text", !.chat = c,
                                          !.pc = "llm", !.said = Typed]]
            /\ chat_conversations' = WithHistory(c)
    /\ reply' = NoReply
    /\ UNCHANGED <<transactions, storevars>>

\* handle_image up to its first await: the history is created before `try`
HandleImageBegins(c) ==
    /\ received < MaxMessages
    /\ received' = received + 1
    /\ task' = [task EXCEPT ![received + 1] =
                   [NoTask EXCEPT !.kind = "image", !.chat = c,
                                  !.pc = "llm", !.said = Image]]
    /\ chat_conversations' = WithHistory(c)
    /\ reply' = NoReply
    /\ UNCHANGED <<transactions, storevars>>

\* handle_voice up to its first await (get_file)
HandleVoiceBegins(c) ==
    /\ received < MaxMessages
    /\ received' = received + 1
    /\ task' = [task EXCEPT ![received + 1] =
                   [NoTask EXCEPT !.kind = "voice", !.chat = c,
                                  !.pc = "transcribe"]]
    /\ reply' = NoReply
    /\ UNCHANGED <<chat_conversations, transactions, storevars>>

\* VoiceTranscriber.transcribe_voice by what happens in it.  Only a Whisper
\* that could not be imported gives None; a model that fails to load leaves
\* self.model None, and the AttributeError of self.model.transcribe is
\* caught like every other exception and returned as a string.
WhisperRuns == {"unavailable", "load fails", "file missing", "raises",
                "empty", "speech"}

transcribe_voice(run) ==
    CASE run = "unavailable" -> NoText
      [] run = "speech" -> [by |-> "whisper", what |-> "speech"]
      [] OTHER -> [by |-> "whisper", what |-> "diagnostic"]

\* The chain of handle_voice.  vosk: Vosk recognised speech; run: the
\* Whisper run, or "no file" when writing the temporary file raised; alt:
\* the alternative transcriber returned its text.
Transcribed(vosk, run, alt) ==
    LET first == IF vosk THEN [by |-> "vosk", what |-> "speech"] ELSE NoText
        second == IF first # NoText THEN first
                  ELSE IF run = "no file" THEN NoText
                  ELSE transcribe_voice(run)
    IN  IF second # NoText THEN second
        ELSE IF alt THEN [by |-> "alt", what |-> "canned"]
        ELSE NoText

\* what the chain can hand to the handler
Transcripts ==
    { Transcribed(vosk, run, alt) :
        vosk \in BOOLEAN, run \in WhisperRuns \cup {"no file"},
        alt \in BOOLEAN }

\* handle_voice from the download to the await of the LLM; text: what the
\* chain of transcribers gave; ok: the notice that nothing was recognised
\* could be sent
VoiceTranscribed(m, text, ok) ==
    /\ task[m].pc = "transcribe"
    /\ LET c == task[m].chat
       IN  IF text = NoText
           THEN /\ task' = [task EXCEPT ![m] =
                                IF ok THEN Finished(@, "unrecognised")
                                ELSE [@ EXCEPT !.pc = "apology"]]
                /\ reply' = IF ok THEN Says(c, "not recognised", 0)
                            ELSE NoReply
                /\ UNCHANGED chat_conversations
           ELSE /\ task' = [task EXCEPT ![m].pc = "llm", ![m].said = text]
                /\ chat_conversations' = WithHistory(c)
                /\ reply' = NoReply
    /\ UNCHANGED <<transactions, received, storevars>>

\* an await before the answer is stored raises: get_file, download_file,
\* the LLM call
AwaitRaises(m) ==
    /\ task[m].pc \in {"transcribe", "llm"}
    /\ task' = [task EXCEPT ![m].pc = "apology", ![m].said = NoText]
    /\ reply' = NoReply
    /\ UNCHANGED <<chat_conversations, transactions, received, storevars>>

\* the LLM answered: the transactions are stored, the answer with the
\* balance is composed, the history is extended, and the handler awaits
\* message.answer
LlmReturns(m, txs) ==
    /\ task[m].pc = "llm"
    /\ LET c == task[m].chat
           stored == IF txs # <<>>
                     THEN [transactions EXCEPT ![c] = @ \o Stamped(txs, m)]
                     ELSE transactions
           user == [role |-> "user", msg |-> m]
           assistant == [role |-> "assistant", msg |-> m]
       IN  /\ transactions' = stored
           /\ chat_conversations' =
                  [chat_conversations EXCEPT ![c] =
                      @ \o (IF task[m].kind = "image" THEN <<assistant>>
                            ELSE <<user, assistant>>)]
           /\ task' = [task EXCEPT ![m].pc = "send", ![m].said = NoText]
           /\ reply' = Says(c, "answer", HandlerBalance(stored[c]))
    /\ UNCHANGED <<received, storevars>>

\* a loop that sleeps and tries again after the third failure as well
SendAnswerOnceMore(m, ok) ==
    /\ task[m].pc = "send"
    /\ LET t == task[m]
           last == t.kind # "voice" \/ ~(t.attempt < max_retries)
       IN  /\ task' = [task EXCEPT ![m] =
                  IF ok THEN Finished(t, "answered")
                  ELSE [t EXCEPT !.attempt =
                                     IF t.kind = "voice" THEN @ + 1 ELSE @,
                                 !.pc = IF last THEN "apology" ELSE "sleep"]]
           /\ reply' = IF ok THEN Says(t.chat, "sent", 0) ELSE NoReply
    /\ UNCHANGED <<chat_conversations, transactions, received, storevars>>

\* message.answer(answer_text); ok: it was sent.  handle_voice retries.
SendAnswer(m, ok) ==
    /\ task[m].pc = "send"
    /\ LET t == task[m]
           last == t.kind # "voice" \/ ~(t.attempt < max_retries - 1)
       IN  /\ task' = [task EXCEPT ![m] =
                  IF ok THEN Finished(t, "answered")
                  ELSE [t EXCEPT !.attempt =
                                     IF t.kind = "voice" THEN @ + 1 ELSE @,
                                 !.pc = IF last THEN "apology" ELSE "sleep"]]
           /\ reply' = IF ok THEN Says(t.chat, "sent", 0) ELSE NoReply
    /\ UNCHANGED <<chat_conversations, transactions, received, storevars>>

\* asyncio.sleep(1) of the retry loop is over
Slept(m) ==
    /\ task[m].pc = "sleep"
    /\ task' = [task EXCEPT ![m].pc = "send"]
    /\ reply' = NoReply
    /\ UNCHANGED <<chat_conversations, transactions, received, storevars>>

\* `except Exception`: the handler sends its apology; ok: it was sent
Apology(m, ok) ==
    /\ task[m].pc = "apology"
    /\ task' = [task EXCEPT ![m] =
                   Finished(@, IF ok THEN "error" ELSE "raised")]
    /\ reply' = IF ok THEN Says(task[m].chat, "apology", 0) ELSE NoReply
    /\ UNCHANGED <<chat_conversations, transactions, received, storevars>>

BotNext ==
    \/ \E c \in Chats : cmd_start(c)
    \/ \E c \in Chats : cmd_balance(c)
    \/ \E c \in Chats : cmd_transactions(c)
    \/ \E c \in Chats, blank \in BOOLEAN : HandleMessageBegins(c, blank)
    \/ \E c \in Chats : HandleImageBegins(c)
    \/ \E c \in Chats : HandleVoiceBegins(c)
    \/ \E m \in Messages, text \in Transcripts, ok \in BOOLEAN :
           VoiceTranscribed(m, text, ok)
    \/ \E m \in Messages : AwaitRaises(m)
    \/ \E m \in Messages, txs \in Extracted : LlmReturns(m, txs)
    \/ \E m \in Messages, ok \in BOOLEAN : SendAnswer(m, ok)
    \/ \E m \in Messages : Slept(m)
    \/ \E m \in Messages, ok \in BOOLEAN : Apology(m, ok)

\* the bot sorts nothing: one value of sortKind is followed
BotInit == Init /\ sortKind = "stable"

BotSpec == BotInit /\ [][BotNext]_vars

(***************************************************************************)
(* Vocabulary of the properties.                                            *)
(***************************************************************************)
SearchDone ==
    call.op \in {"similarity_search", "keyword_search"} /\ ret.status = "ok"

SimilarityDone == call.op = "similarity_search" /\ ret.status = "ok"

\* the stores whose similarity_search ranks rows by cosine similarity
CosineKinds == {"tfidf", "tfidf_json", "local_emb", "ollama"}

\* the place in self.documents of a returned row (FAISS returns its own
\* copies, which remember that place)
RowPos(r) ==
    IF kind = "ollama_lc" /\ call.op = "similarity_search"
    THEN vector_store.items[r].pos
    ELSE r

Hits == [i \in 1..Len(ret.rows) |-> RowPos(ret.rows[i])]

FromLastCall(p) == p > Len(documents) - fresh

\* the vector the most recent similarity_search compared the rows with
QueryVector ==
    CASE kind \in TfidfKinds -> Transform(kind, vectorizer, call.query)
      [] kind = "ollama" -> get_embedding(call.query, call.up)
      [] OTHER -> Embed(call.query)

\* the cosine similarity of every stored row with that vector
Cosines ==
    CASE kind \in TfidfKinds -> TfidfSimilarities(QueryVector)
      [] kind = "ollama_lc" ->
           [i \in 1..Len(vector_store.items) |->
               SimKeyOf(Dot(vector_store.items[i].vec, QueryVector),
                        Dot(vector_store.items[i].vec,
                            vector_store.items[i].vec))]
      [] OTHER -> DenseSimilarities(QueryVector)

Positive(key) == key.num > 0

\* the words a query and a chunk have in common, case ignored
SharedWords(query, text) == Range(LowerAll(query)) \cap Range(LowerAll(text))

\* the matrix is the one computed from the documents the store holds
Built ==
    /\ embeddings.shape = "2d"
    /\ Len(embeddings.rows) = Len(documents)
    /\ \A i \in 1..Len(documents) :
          embeddings.rows[i] =
              Transform(kind, vectorizer, documents[i].page_content)

(***************************************************************************)
(* C1.  As claimed: on every store, after add_documents(C1) and then        *)
(* add_documents(C2), a search returns only chunks of C2, the list of the   *)
(* most recent call.                                                        *)
(***************************************************************************)
C1_OnlyLastBatchEveryStore ==
    (adds = 2 /\ ~failed /\ SearchDone) =>
        \A i \in 1..Len(Hits) : FromLastCall(Hits[i])

\* C1 as amended: that holds for the TF-IDF LocalVectorStore (indexer.py and
\* indexer_with_json.py), whose add_documents replaces the list; the three
\* embedding stores append to it.
C1_OnlyLastBatchTfidf ==
    (kind \in TfidfKinds /\ SearchDone) =>
        \A i \in 1..Len(Hits) : FromLastCall(Hits[i])

C1_Witness ==
    /\ kind \in TfidfKinds
    /\ adds = 2
    /\ ~failed
    /\ SearchDone
    /\ ret.rows # <<>>

(***************************************************************************)
(* C2.  As claimed: similarity_search of every store returns only chunks    *)
(* whose cosine similarity to the query is greater than 0.                  *)
(***************************************************************************)
C2_OnlyPositiveEveryStore ==
    SimilarityDone =>
        \A i \in 1..Len(ret.rows) : Positive(Cosines[ret.rows[i]])

\* C2 as amended: the TF-IDF LocalVectorStore returns only rows whose
\* similarity is greater than 0, also when fewer than k are left; the
\* embedding stores return their top k whatever the sign.
C2_OnlyPositiveTfidf ==
    (kind \in TfidfKinds /\ SimilarityDone) =>
        \A i \in 1..Len(ret.rows) : Positive(Cosines[ret.rows[i]])

C2_Witness ==
    /\ kind \in TfidfKinds
    /\ SimilarityDone
    /\ Len(ret.rows) >= 1
    /\ Len(ret.rows) < Min(call.k, Len(embeddings.rows))

(***************************************************************************)
(* C3.  As claimed: among rows of equal similarity the one ingested earlier *)
(* is returned before the later one, and the earlier ones are those that    *)
(* take the last places of the top k.                                       *)
(***************************************************************************)
C3_TiesByIngestionOrder ==
    (kind \in CosineKinds /\ SimilarityDone) =>
        /\ \A i, j \in 1..Len(ret.rows) :
              (i < j /\ KeyEq(Cosines[ret.rows[i]], Cosines[ret.rows[j]]))
                  => ret.rows[i] < ret.rows[j]
        /\ \A i \in 1..Len(ret.rows) :
              \A u \in (1..Len(embeddings.rows)) \ Range(ret.rows) :
                  KeyEq(Cosines[ret.rows[i]], Cosines[u]) => ret.rows[i] < u

\* C3 as amended: for k >= 1 the result is in order of non-increasing
\* similarity, no row left out is more similar than a returned one, and
\* min(k, eligible) rows are returned (eligible: the rows with positive
\* similarity for the TF-IDF store, all rows for the embedding stores); the
\* order of rows with equal similarity is the one argsort leaves, not
\* ingestion order.
C3_TopKBySimilarity ==
    (kind \in CosineKinds /\ SimilarityDone /\ documents # <<>>
         /\ embeddings.shape = "2d" /\ call.k >= 1) =>
        LET n == Len(embeddings.rows)
            eligible == IF kind \in TfidfKinds
                        THEN { u \in 1..n : Positive(Cosines[u]) }
                        ELSE 1..n
        IN  /\ \A i, j \in 1..Len(ret.rows) :
                  i < j => ~KeyLess(Cosines[ret.rows[i]], Cosines[ret.rows[j]])
            /\ \A i \in 1..Len(ret.rows) :
                  \A u \in eligible \ Range(ret.rows) :
                      ~KeyLess(Cosines[ret.rows[i]], Cosines[u])
            /\ Range(ret.rows) \subseteq eligible
            /\ Len(ret.rows) = Min(call.k, Cardinality(eligible))

C3_Witness ==
    /\ kind \in CosineKinds
    /\ SimilarityDone
    /\ \E i, j \in 1..Len(ret.rows) :
          /\ i < j
          /\ KeyEq(Cosines[ret.rows[i]], Cosines[ret.rows[j]])
          /\ ret.rows[i] > ret.rows[j]

(***************************************************************************)
(* C4.  For k >= 1, similarity_search and keyword_search return at most     *)
(* min(k, number of chunks the store holds) chunks, none of them twice.     *)
(***************************************************************************)
C4_AtMostKDistinct ==
    (SearchDone /\ call.k >= 1) =>
        /\ Len(ret.rows) <= Min(call.k, Len(documents))
        /\ \A i, j \in 1..Len(Hits) : i # j => Hits[i] # Hits[j]
        /\ \A i \in 1..Len(Hits) : Hits[i] \in 1..Len(documents)

C4_Witness ==
    /\ SearchDone
    /\ call.k >= 1
    /\ Len(ret.rows) = call.k
    /\ call.k < Len(documents)

\* every stored vector is the one its document gives
Aligned ==
    CASE kind \in TfidfKinds ->
           \/ documents = <<>> /\ embeddings.shape = "None"
           \/ Built
      [] kind = "local_emb" ->
           /\ Len(embeddings.rows) = Len(documents)
           /\ \A i \in 1..Len(documents) :
                 embeddings.rows[i] = Embed(documents[i].page_content)
      [] kind = "ollama" ->
           /\ Len(embeddings.rows) = Len(documents)
           /\ Len(substituted) = Len(documents)
           /\ \A i \in 1..Len(documents) :
                 embeddings.rows[i] =
                     get_embedding(documents[i].page_content, ~substituted[i])
      [] kind = "ollama_lc" ->
           /\ Len(vector_store.items) = Len(documents)
           /\ \A i \in 1..Len(documents) :
                 /\ vector_store.items[i].pos = i
                 /\ vector_store.items[i].vec =
                        Embed(documents[i].page_content)
      [] OTHER -> TRUE

(***************************************************************************)
(* C5.  After any sequence of add_documents calls that all completed, the   *)
(* store holds as many vectors as documents, and vector i is the vector     *)
(* computed from document i.                                                *)
(***************************************************************************)
C5_VectorsMatchDocuments == (kind \in Kinds /\ ~failed) => Aligned

(***************************************************************************)
(* C6.  An add_documents call that raises leaves the documents, the matrix, *)
(* the vectorizer and the index exactly as they were before the call.       *)
(***************************************************************************)
C6_FailedAddLeavesStore ==
    [][(call'.op = "add_documents" /\ ret'.status = "raised") =>
           /\ documents' = documents
           /\ embeddings' = embeddings
           /\ vectorizer' = vectorizer
           /\ vector_store' = vector_store]_vars

(***************************************************************************)
(* C7.  With the embedding provider down and at least one chunk given,      *)
(* create_vector_store does not raise and returns a TF-IDF                  *)
(* LocalVectorStore holding all the chunks, and reindex_all returns that    *)
(* store, not None.                                                         *)
(***************************************************************************)
C7_FallbackIndexes ==
    (/\ call.op \in {"create_vector_store", "reindex_all"}
     /\ ~call.up
     /\ call.chunks # <<>>) =>
        /\ ret.status = "ok"
        /\ ret.value = "store"
        /\ kind = "tfidf"
        /\ Contents(documents) = call.chunks

(***************************************************************************)
(* C8.  A similarity_search of OllamaEmbeddingVectorStore whose query       *)
(* embedding request failed does not raise and returns what keyword_search  *)
(* returns for that query and k.                                            *)
(***************************************************************************)
C8_FailedQueryGivesKeywordResult ==
    (kind = "ollama" /\ call.op = "similarity_search" /\ ~call.up) =>
        /\ ret.status = "ok"
        /\ ret.rows = SetKeywordSearch(call.query, call.k).rows

(***************************************************************************)
(* C9.  The vectors an OllamaEmbeddingVectorStore holds are either all real *)
(* embeddings or all substituted ones, never some of each.                  *)
(***************************************************************************)
C9_OneStrategy ==
    kind = "ollama" =>
        \A i, j \in 1..Len(substituted) : substituted[i] = substituted[j]

KeywordDone == call.op = "keyword_search" /\ ret.status = "ok"

\* the reference score: over all query words, occurrences in the chunk
\* times the length of the word
RefScore(words, text) ==
    SumSeq([i \in 1..Len(words) |->
               ContentCount(words[i], text) * Len(words[i])])

LongWords(query) == SelectSeq(LowerAll(query), LAMBDA w : Len(w) > 3)

\* rows are the first k of the chunks with a positive score, in order of
\* descending score, equal scores in ingestion order
IsFirstKByScore(rows, score, k) ==
    LET n == Len(score)
        positive == { u \in 1..n : score[u] > 0 }
        Ahead(a, b) ==
            score[a] > score[b] \/ (score[a] = score[b] /\ a < b)
    IN  /\ Range(rows) \subseteq positive
        /\ \A i, j \in 1..Len(rows) : i < j => Ahead(rows[i], rows[j])
        /\ \A i \in 1..Len(rows) :
              \A u \in positive \ Range(rows) : Ahead(rows[i], u)
        /\ Len(rows) = Min(k, Cardinality(positive))

(***************************************************************************)
(* C11.  As claimed: for k >= 1, keyword_search of every store returns the  *)
(* first k of the chunks with a positive reference score (the sum over all  *)
(* query words of occurrences times word length), by descending score,     *)
(* equal scores in ingestion order.                                         *)
(***************************************************************************)
C11_ReferenceKeywordSearch ==
    (KeywordDone /\ call.k >= 1) =>
        IsFirstKByScore(ret.rows,
            [i \in 1..Len(documents) |->
                RefScore(LowerAll(call.query), documents[i].page_content)],
            call.k)

\* C11 as amended: the selection and the order are the reference's, the
\* score is not: LocalVectorStore of indexer_with_json.py sums occurrences
\* times length over the query words longer than 3 characters only, and
\* the three embedding stores score a chunk by the number of distinct query
\* words that are whole words of the chunk.
C11_KeywordSearchByStoreScore ==
    (KeywordDone /\ call.k >= 1) =>
        IsFirstKByScore(ret.rows,
            [i \in 1..Len(documents) |->
                IF kind = "tfidf_json"
                THEN RefScore(LongWords(call.query),
                              documents[i].page_content)
                ELSE Cardinality(SharedWords(call.query,
                                             documents[i].page_content))],
            call.k)

C11_Witness ==
    /\ KeywordDone
    /\ call.k >= 1
    /\ Len(ret.rows) = call.k
    /\ Len(ret.rows) >= 2
    /\ Len(documents) > call.k

(***************************************************************************)
(* Vocabulary of the rag.py properties.                                     *)
(***************************************************************************)
\* the step ends a retrieval of local_retriever or of fallback_answer
RetrievalEnds ==
    /\ call'.op \in {"similarity_search", "keyword_search"}
    /\ pc' = "done"
    /\ answer'.status = "ok"

\* what keyword_search gives the retrieval's query on the store installed
\* at the step
KeywordChunks ==
    Chunks("ok", JsonKeywordSearch(request'.query, request'.k).rows).chunks

(***************************************************************************)
(* C12.  A retrieval on a LocalVectorStore (local_retriever, and the        *)
(* retrieval step of fallback_answer) ends with keyword_search as its last  *)
(* call exactly when similarity_search returned the empty list; when        *)
(* similarity_search returned chunks the result is that list, otherwise it  *)
(* is what keyword_search returns, the empty list when that finds nothing.  *)
(***************************************************************************)
C12_KeywordOnlyAfterEmptySimilarity ==
    [][RetrievalEnds =>
          /\ (call'.op = "keyword_search") <=> (partial' = <<>>)
          /\ partial' # <<>> => answer'.chunks = partial'
          /\ partial' = <<>> => answer'.chunks = KeywordChunks]_vars

C12_Witness ==
    /\ pc = "done"
    /\ call.op = "keyword_search"
    /\ partial = <<>>
    /\ answer.status = "ok"
    /\ answer.chunks # <<>>

(***************************************************************************)
(* C13.  reindex_all leaves the installed store as it is, and a retrieval   *)
(* that overlaps the replacement of rag.vector_store returns what the       *)
(* whole retrieval gives on the store installed when it began or what it    *)
(* gives on the store installed when it ends: both of its searches see the  *)
(* same index.                                                              *)
(***************************************************************************)
C13_OldOrNewIndex ==
    [][/\ call'.op = "reindex_all" =>
              UNCHANGED <<kind, documents, embeddings, vectorizer, epoch>>
       /\ RetrievalEnds =>
              \/ answer' = atStart'
              \/ answer' = Retrieved(request'.query, request'.k).answer]_vars

(***************************************************************************)
(* C14.  add_documents with an empty chunk list does not raise and leaves   *)
(* the store empty, and every similarity_search and keyword_search after it *)
(* returns the empty list.                                                  *)
(***************************************************************************)
C14_EmptyAddEmptiesStore ==
    /\ (kind \in Kinds /\ call.op = "add_documents" /\ call.chunks = <<>>) =>
           /\ ret.status = "ok"
           /\ documents = <<>>
    /\ (/\ kind \in Kinds
        /\ adds >= 1
        /\ fresh = 0
        /\ call.op \in {"similarity_search", "keyword_search"}) =>
           /\ ret.status = "ok"
           /\ ret.rows = <<>>

C16_EmptyChunksSkipped ==
    /\ (/\ kind \in Kinds
        /\ call.op = "add_documents"
        /\ \E i \in 1..Len(call.chunks) : call.chunks[i] = <<>>
        /\ \E i \in 1..Len(call.chunks) : call.chunks[i] # <<>>
        /\ ~failed) =>
           ret.status = "ok"
    /\ kind \in Kinds =>
           \A i \in 1..Len(documents) : documents[i].page_content # <<>>

(***************************************************************************)
(* C17.  On a TF-IDF LocalVectorStore, indexing the single chunk "bank"     *)
(* succeeds, and a similarity_search for "Bank" on the store holding just   *)
(* that chunk returns exactly that chunk, once, for every k >= 1 (k = 3     *)
(* among them).                                                             *)
(***************************************************************************)
C17_SingleChunkIndex ==
    /\ (/\ kind \in TfidfKinds
        /\ call.op = "add_documents"
        /\ call.chunks = <<B>>) =>
           ret.status = "ok"
    /\ (/\ kind \in TfidfKinds
        /\ call.op = "similarity_search"
        /\ documents = MakeDocs(<<B>>)
        /\ call.query = <<"Bank">>
        /\ call.k >= 1) =>
           /\ ret.status = "ok"
           /\ ret.rows = <<1>>

\* the three chunks of the scenario are indexed in a TF-IDF LocalVectorStore
SalaryIndexed ==
    /\ kind \in TfidfKinds
    /\ Contents(documents) = <<P1, P2, P3>>
    /\ Built

SecondChunkFirst(rows) == rows # <<>> /\ rows[1] = 2

(***************************************************************************)
(* C18.  As claimed: with the three chunks indexed, the query "зарплата"    *)
(* gets the second chunk as its first result from similarity_search, or     *)
(* from keyword_search where similarity_search returns nothing.             *)
(***************************************************************************)
C18_SalaryNominative ==
    (SalaryIndexed /\ SearchDone /\ call.query = <<"zarplata">>
         /\ call.k >= 1) =>
        /\ call.op = "similarity_search" =>
              \/ SecondChunkFirst(ret.rows)
              \/ kind = "tfidf_json" /\ ret.rows = <<>>
        /\ call.op = "keyword_search" =>
              (TfidfSimilaritySearch(call.query, call.k).rows = <<>>
                   => SecondChunkFirst(ret.rows))

\* C18 as amended: the query has to carry the word in the form the chunk
\* has it.  "зарплату" gets the second chunk as the first result of
\* similarity_search (both LocalVectorStore classes) and of keyword_search;
\* "зарплата", which is no word and no substring of any chunk, gets the
\* empty list from both.
C18_SalaryAsWritten ==
    (SalaryIndexed /\ SearchDone /\ call.k >= 1) =>
        /\ call.query = <<"zarplatu">> => SecondChunkFirst(ret.rows)
        /\ call.query = <<"zarplata">> => ret.rows = <<>>

C18_Witness ==
    /\ SalaryIndexed
    /\ SimilarityDone
    /\ call.query = <<"zarplatu">>
    /\ call.k >= 1
    /\ ret.rows = <<2>>

C20_NonPositiveKNoChunks ==
    (/\ call.op \in {"similarity_search", "keyword_search"}
     /\ call.k <= 0) =>
        ret.rows = <<>>

SameSearch ==
    /\ kind \in TfidfKinds
    /\ twin.kind = kind
    /\ call.op \in {"similarity_search", "keyword_search"}
    /\ twin.call = call
    /\ ret.status = "ok"
    /\ twin.ret.status = "ok"

(***************************************************************************)
(* C22.  Chunk metadata never influences ranking: two stores built from     *)
(* chunk lists of equal text in equal order but with different metadata     *)
(* return the chunks at the same places in the same order, for every query  *)
(* and k, from similarity_search and from keyword_search.                   *)
(***************************************************************************)
C22_MetadataNotRanked ==
    (/\ SameSearch
     /\ Contents(documents) = Contents(twin.documents)
     /\ documents # twin.documents) =>
        ret.rows = twin.ret.rows

C22_Witness ==
    /\ SameSearch
    /\ Contents(documents) = Contents(twin.documents)
    /\ documents # twin.documents
    /\ Len(ret.rows) >= 2
    /\ \E i \in 1..Len(documents) :
          documents[i].metadata.source \in Range(LowerAll(call.query))

IsPrefix(s, t) == Len(s) <= Len(t) /\ SubSeq(t, 1, Len(s)) = s

\* the step is cmd_start for chat c: only cmd_start sends the greeting
Restarts(c) == reply'.kind = "greeting" /\ reply'.chat = c

\* entries of a history or of a transaction list that come from message m
FromMessage(s, m) == SelectSeq(s, LAMBDA e : e.msg = m)

\* C24: /start resets exactly one session.  A cmd_start step for chat c
\* leaves chat_conversations[c] holding only the system message and
\* transactions[c] empty, and leaves the history and the transactions of
\* every other chat as they were; every other step of every handler only
\* extends the history and the transaction list of a chat, never removes
\* an entry.
C24_StartResetsOneSession ==
    [][ /\ \A c \in Chats :
            Restarts(c) =>
                /\ chat_conversations'[c] = <<System>>
                /\ transactions'[c] = <<>>
                /\ \A d \in Chats \ {c} :
                       /\ chat_conversations'[d] = chat_conversations[d]
                       /\ transactions'[d] = transactions[d]
        /\ reply'.kind # "greeting" =>
               \A c \in Chats :
                   /\ IsPrefix(chat_conversations[c], chat_conversations'[c])
                   /\ IsPrefix(transactions[c], transactions'[c]) ]_vars

\* /start has just emptied a chat one of whose messages had been answered,
\* while another chat holds the transactions and the history of its own
\* message
C24_Witness ==
    /\ reply.kind = "greeting"
    /\ chat_conversations[reply.chat] = <<System>>
    /\ transactions[reply.chat] = <<>>
    /\ \E m \in Messages :
           task[m].chat = reply.chat /\ task[m].end = "answered"
    /\ \E d \in Chats \ {reply.chat} :
           /\ transactions[d] # <<>>
           /\ Len(chat_conversations[d]) >= 3

\* C25: a /start processed while a handler of the same chat awaits the LLM
\* still yields a clean session.  Once that handler has finished, the
\* chat's transaction list and history hold no transaction and no user or
\* assistant entry that comes from its message, which was received before
\* the /start.
C25_StartWhileAwaitingLeavesClean ==
    \A m \in Messages :
        task[m].restarted /\ task[m].pc = "done" =>
            /\ FromMessage(transactions[task[m].chat], m) = <<>>
            /\ FromMessage(chat_conversations[task[m].chat], m) = <<>>

\* C26: session state is unchanged on error.  When a message handler has
\* ended on its exception path with the apology sent, the chat's
\* transaction list holds no transaction from that message and the history
\* no user or assistant entry for it.
C26_ErrorLeavesSession ==
    \A m \in Messages :
        task[m].end = "error" =>
            /\ FromMessage(transactions[task[m].chat], m) = <<>>
            /\ FromMessage(chat_conversations[task[m].chat], m) = <<>>

\* C27: the text handle_voice passes to the LLM, and stores as the user's
\* message, is what a transcriber of the chain recognised; a diagnostic of
\* a failed Whisper run counts as no text and is never passed on.
C27_NoDiagnosticForwarded ==
    \A m \in Messages :
        task[m].kind = "voice" /\ task[m].pc = "llm" =>
            task[m].said \in { [by |-> "vosk", what |-> "speech"],
                               [by |-> "whisper", what |-> "speech"],
                               [by |-> "alt", what |-> "canned"] }

\* the event loop completes every await: a send that is awaited is
\* delivered or raises, a sleep that is awaited ends
BotFairSpec ==
    /\ BotSpec
    /\ \A m \in Messages :
           /\ WF_vars(\E ok \in BOOLEAN : SendAnswer(m, ok))
           /\ WF_vars(Slept(m))

\* the handler of message m is in the send-retry loop of handle_voice
InRetryLoop(m) ==
    task[m].kind = "voice" /\ task[m].pc \in {"send", "sleep"}

\* C29: the send-retry loop of handle_voice.  An attempt is made only after
\* fewer than 3 failures, so at most 3 attempts are made; a successful
\* attempt ends the handler, which sends nothing more; after a failure the
\* loop sleeps only if attempts remain, and the third failure takes the
\* handler's exception path; a handler in the loop always leaves it.
C29_SendRetryLoop ==
    /\ [](\A m \in Messages :
              InRetryLoop(m) => task[m].attempt < max_retries)
    /\ [][\A m \in Messages :
              task[m].kind = "voice" /\ task[m].pc = "send"
                /\ task'[m].pc # "send" =>
                  \/ /\ task'[m].pc = "done"
                     /\ task'[m].end = "answered"
                     /\ reply'.kind = "sent"
                  \/ /\ task'[m].pc = "sleep"
                     /\ task'[m].attempt = task[m].attempt + 1
                     /\ task'[m].attempt < max_retries
                  \/ /\ task'[m].pc = "apology"
                     /\ task'[m].attempt = max_retries]_vars
    /\ [][\A m \in Messages :
              task[m].pc = "done" => task'[m] = task[m]]_vars
    /\ \A m \in Messages : InRetryLoop(m) ~> ~InRetryLoop(m)

\* the third attempt of a voice handler has failed
C29_Witness ==
    \E m \in Messages :
        /\ task[m].kind = "voice"
        /\ task[m].pc = "apology"
        /\ task[m].attempt = max_retries

\* the amounts of the transactions of one type in a chat's list
RECURSIVE AmountsOf(_, _)
AmountsOf(txs, type) ==
    IF txs = <<>> THEN 0
    ELSE LET rest == AmountsOf(SubSeq(txs, 1, Len(txs) - 1), type)
             last == txs[Len(txs)]
         IN  IF last.type = type THEN rest + last.amount ELSE rest

\* C30: the balance in a handler's answer and the balance /balance reports
\* are both the income amounts minus the expense amounts of the
\* transactions the chat's list holds, which are those stored since the
\* chat's last /start; the handlers' signed sum and the difference of sums
\* of /balance agree on every list.
C30_BalanceIsIncomeMinusExpense ==
    /\ reply.kind \in {"answer", "balance"} =>
           reply.balance = AmountsOf(transactions[reply.chat], "income")
                           - AmountsOf(transactions[reply.chat], "expense")
    /\ \A c \in Chats :
           HandlerBalance(transactions[c]) = ReportBalance(transactions[c])

\* /balance reports on a chat that was started anew after a message and
\* holds the transactions of the message that followed
C30_Witness ==
    /\ reply.kind = "balance"
    /\ reply.balance = 3
    /\ \E m \in Messages :
           /\ task[m].chat = reply.chat
           /\ task[m].end = "answered"
           /\ FromMessage(chat_conversations[reply.chat], m) = <<>>
    /\ \E m \in Messages :
           /\ task[m].chat = reply.chat
           /\ Len(FromMessage(transactions[reply.chat], m)) = 2

\* C28: rag_answer raises exactly when the vector_store or the retriever
\* global is None at the call, and what it raises is ValueError; in every
\* other case it returns a string, whether the chain answered or
\* fallback_answer did after the chain failed.
C28_RagAnswerRaisesOnlyUninitialized ==
    call.op = "rag_answer" =>
        /\ ret.status \in {"ok", "raised"}
        /\ ret.status = "raised" <=> (kind = None \/ retriever = None)
        /\ ret.status = "raised" => ret.value = "ValueError"
        /\ ret.status = "ok" => ret.value \in AnswerTexts

\* the chain failed on an initialised store and fallback_answer's search
\* raised: rag_answer returned the 'search error' text
C28_Witness ==
    /\ call.op = "rag_answer"
    /\ kind # None
    /\ retriever # None
    /\ documents # <<>>
    /\ ret = Returns("search error")

====
